---- MODULE Spec2Model ----
(***************************************************************************)
(* Beta-plane barotropic vorticity model                                   *)
(* (src/barotropic_vorticity/baro_vort_script.py): the main loop with its  *)
(* Courant-number timestep controller, the Adams-Bashforth integrator and  *)
(* its history, the time and step bookkeeping, the interval diagnostics,   *)
(* and the pointwise spectral operations (circular truncation, high        *)
(* wavenumber filter, band forcing).                                       *)
(*                                                                         *)
(* Numbers.  Times (t, dt, tmax, t_diag, t_plot) are integers counting a   *)
(* quantum; the script's binary64 arithmetic is modelled by decimal        *)
(* floating point with `prec` significant digits and round-half-even, so a *)
(* product or a sum is exact whenever it is representable and is rounded   *)
(* (a small addend is absorbed) when it is not.  The initial dt is dt0     *)
(* quanta.  Velocities count 1/64 of a velocity unit, so that the Courant  *)
(* number maxvel*dt/dx is (maxvel*dt) / (10*dt0).                          *)
(*                                                                         *)
(* Spectral fields.  Every spectral operation of the loop except the       *)
(* Jacobian acts on each coefficient (k, l) separately; the model follows  *)
(* one coefficient, chosen by Init, and takes the Jacobian and the linear  *)
(* terms at that coefficient as an input.  A coefficient value is a        *)
(* polynomial in the coefficient's filter factor                           *)
(*   F = exp(filter_dec*(sqrt(ksq)/dk - kcut)^filter_exp),  0 < F < 1,     *)
(* written as the sequence of its integer coefficients, <<>> being zero.   *)
(***************************************************************************)
EXTENDS Integers, Sequences, FiniteSets, TLC

VARIABLES
    pc,             \* position in the script: "head", "adjust", "integrate",
                    \* "diag", "advance", "done"; "raised" after an exception;
                    \* "probe" for the pointwise runs
    prec,           \* significant decimal digits of the arithmetic
    dt0,            \* the initial dt, in quanta
    nx, ny,         \* grid size
    ki, li,         \* the followed coefficient: k = dk*ki, l = dl*li
    allow_speedup,  \* ALLOW_SPEEDUP
    tmax,           \* simulation-time bound
    t, step, dt,    \* time, step counter, timestep
    maxvel,         \* max|psiy| + max|psix| of this step's velocity field
    c,              \* Courant number of this step, times 10*dt0
    zt,             \* spectral vorticity at the followed coefficient
    forcet,         \* this step's forcing at the followed coefficient
    rhs,            \* this step's right-hand side at the followed coefficient
    prhs, pprhs,    \* _prhs, _pprhs
    diag_every,     \* DIAG_EVERY_S
    plot_every,     \* PLOT_EVERY_S
    overflows,      \* whether a product of the Jacobian may overflow in this
                    \* run
    blown,          \* the fields hold NaN or Inf
    cfin,           \* "finite", "nan" or "inf": the kind of this step's c
    others,         \* the values -jact - beta*psixt - zt*r_rayleigh may take at
                    \* the followed coefficient in this run
    t_diag, t_plot, \* next diagnostic / plot times
    time_arr,       \* recorded diagnostic times
    obs,            \* observations of the current step (not program state)
    ftrail, fops    \* pointwise runs: values after each application, and the
                    \* operations applied

vars == <<pc, prec, dt0, nx, ny, ki, li, allow_speedup, tmax, diag_every, plot_every,
          overflows, blown, cfin, others, t, step, dt, maxvel, c, zt, forcet, rhs, prhs, pprhs, t_diag,
          t_plot, time_arr, obs, ftrail, fops>>

(***************************************************************************)
(* Bounds of the model                                                     *)
(***************************************************************************)
TmaxInDt0 == 3          \* tmax of the bounded runs, in initial timesteps
LiveTmaxInDt0 == 12     \* tmax of the unbounded runs, in initial timesteps
LiveDiagEveryInDt0 == 10    \* DIAG_EVERY_S of the unbounded runs
LivePlotEveryInDt0 == 11    \* PLOT_EVERY_S of the unbounded runs
LiveDigits == 2         \* precision of the unbounded runs
DiagEveryInDt0 == 1     \* DIAG_EVERY_S in initial timesteps
PlotEveryInDt0 == 2     \* PLOT_EVERY_S in initial timesteps
StepCap == 8            \* the step counter stops counting here
SmallNx == 8            \* smallest grid of the pointwise runs
LargeNx == 64           \* largest grid of the pointwise runs

\* Precision of the bounded runs: every product by 0.9 or 1.1 and every sum
\* of a run that ends within tmax = TmaxInDt0 initial timesteps is exact.
Digits == 2 * TmaxInDt0 - 1

(***************************************************************************)
(* Program constants                                                       *)
(***************************************************************************)
ConfigNx == 256
ConfigNy == 256
SLOWDN_AT_C_Tenths == 6
\* variant: no band between the two thresholds
SpeedupAtSlowdownThreshold == SLOWDN_AT_C_Tenths
SPEEDUP_AT_C_Tenths == 4
kcut == 30
BandLo == 14
BandHi == 20
n_diss == 2
TauTenths == 1          \* tau = 0.1

(***************************************************************************)
(* Arithmetic                                                              *)
(***************************************************************************)
RECURSIVE Pow10(_)
Pow10(n) == IF n = 0 THEN 1 ELSE 10 * Pow10(n - 1)

\* variant: rounding toward zero
RoundTowardZero(num, den) == num \div den
\* round(num/den), ties to the even integer: np.round, and the rounding of
\* binary64 results
RoundHalfEven(num, den) ==
    LET q == num \div den
        r == num % den
    IN  IF 2 * r > den \/ (2 * r = den /\ q % 2 = 1) THEN q + 1 ELSE q

\* least e >= 0 with num/den < 10^(p+e)
RECURSIVE ExpFor(_, _, _, _)
ExpFor(num, den, p, e) ==
    IF num < den * Pow10(p + e) THEN e ELSE ExpFor(num, den, p, e + 1)

\* num/den (>= 0) rounded to p significant digits
RoundTo(num, den, p) ==
    LET e == ExpFor(num, den, p, 0)
    IN  RoundHalfEven(num, den * Pow10(e)) * Pow10(e)

FAdd(x, y, p) == RoundTo(x + y, 1, p)       \* x + y
FMul(num, den, x, p) == RoundTo(num * x, den, p)   \* (num/den) * x

\* dt = 0.4 * 16.0 / nx, in quanta: one digit spare in the bounded runs, so
\* that sums up to ten initial timesteps are exact
Dt0 == Pow10(Digits - 1)
\* the same in the unbounded runs, where sums are rounded from one initial
\* timestep on
LiveDt0 == Pow10(LiveDigits)

(***************************************************************************)
(* Spectral grid                                                           *)
(***************************************************************************)
\* nk = int(np.round(nx/2)) + 1
Nk(n) == RoundHalfEven(n, 2) + 1
\* nl = ny
Nl(n) == n
\* the last axis of rfft2(phi) for phi with n columns: n//2 + 1
RfftWidth(n) == (n \div 2) + 1

\* k = dk*arange(0, nk): the integer multiples of dk
KIndices(n) == 0 .. (Nk(n) - 1)
\* l = dl*fftfreq(nl, d=1/nl): 0 .. (nl-1)//2, then -(nl//2) .. -1
LIndices(n) == (0 .. ((Nl(n) - 1) \div 2)) \cup { -j : j \in 1 .. (Nl(n) \div 2) }

\* (k^2 + l^2)/dk^2 away from the zero mode (Lx = Ly, so dl = dk)
WnSq(k, l) == k * k + l * l

\* ksq/(dk*dk) >= num/den.  At the zero mode ksq is set to 1.0, so the
\* quotient is 1/(4 pi^2), between 1/40 and 1/39; no threshold of the script
\* lies between those two.
KsqGe(k, l, num, den) ==
    IF k = 0 /\ l = 0 THEN 40 * num <= den ELSE den * WnSq(k, l) >= num
\* ksq/(dk*dk) > num/den
KsqGt(k, l, num, den) ==
    IF k = 0 /\ l = 0 THEN 40 * num < den ELSE den * WnSq(k, l) > num
\* ksq/(dk*dk) < num/den
KsqLt(k, l, num, den) == ~KsqGe(k, l, num, den)

(***************************************************************************)
(* Coefficient values: polynomials in the filter factor F                  *)
(***************************************************************************)
PZero == << >>
PConst(m) == IF m = 0 THEN << >> ELSE <<m>>
\* p + m
PAdd(p, m) ==
    IF p = << >> THEN PConst(m)
    ELSE IF Len(p) = 1 THEN PConst(p[1] + m)
    ELSE <<p[1] + m>> \o Tail(p)
\* p * F
PTimesF(p) == IF p = << >> THEN << >> ELSE <<0>> \o p

(***************************************************************************)
(* Pointwise spectral operations                                           *)
(***************************************************************************)
\* variant: the masked coefficients are damped, not zeroed
AntiAliasDamping(n, k, l, v) ==
    IF KsqGe(k, l, 8 * (Nk(n) + 1) * (Nk(n) + 1), 9) THEN PTimesF(v) ELSE v
\* k_mask = (8/9)*(nk+1)**2; phit[abs(ksq/(dk*dk)) >= k_mask] = 0.0
anti_alias(n, k, l, v) ==
    IF KsqGe(k, l, 8 * (Nk(n) + 1) * (Nk(n) + 1), 9) THEN PZero ELSE v

\* variant: the cutoff is ignored
FilterAllWavenumbers(k, l, v) == PTimesF(v)
\* filter_idx = abs(ksq/(dk*dk)) >= kcut**2
\* phit[filter_idx] *= exp(filter_dec*(sqrt(ksq/(dk*dk)) - kcut)**filter_exp)
\* The exponent is 0, and the factor exp(0) = 1, where ksq/(dk*dk) = kcut**2;
\* elsewhere in filter_idx the factor is F < 1 (filter_dec < 0, nk /= kcut).
high_wn_filter(k, l, v) ==
    IF KsqGe(k, l, kcut * kcut, 1)
    THEN IF KsqGt(k, l, kcut * kcut, 1) THEN PTimesF(v) ELSE v
    ELSE v

\* variant: the truncation is left out of the step
FilterOnly(n, k, l, v) == high_wn_filter(k, l, v)
\* anti_alias(zt); high_wn_filter(zt)
TruncateAndFilter(n, k, l, v) == high_wn_filter(k, l, anti_alias(n, k, l, v))

\* variant: no upper edge
ForcingBandNoUpper(k, l) == KsqGt(k, l, BandLo * BandLo, 1)
\* idx = (14 < sqrt(ksq)/dk) & (sqrt(ksq)/dk < 20)
ForcingBand(k, l) ==
    KsqGt(k, l, BandLo * BandLo, 1) /\ KsqLt(k, l, BandHi * BandHi, 1)

(***************************************************************************)
(* Timestep controller and integrator                                      *)
(***************************************************************************)
\* maxvel*dt/dx, times 10*dt0 (velocities in 1/64, dt in quanta)
courant_number(maxu, maxv, d) == (maxu + maxv) * d

\* variant: slows down only strictly above the threshold
AdjustDtStrict(cc, d, allow, p, d0) ==
    IF cc > SLOWDN_AT_C_Tenths * d0 THEN FMul(9, 10, d, p)
    ELSE IF cc < SPEEDUP_AT_C_Tenths * d0 /\ allow THEN FMul(11, 10, d, p)
    ELSE d
\* if c >= SLOWDN_AT_C: dt = 0.9*dt
\* elif c < SPEEDUP_AT_C and ALLOW_SPEEDUP: dt = 1.1*dt
AdjustDt(cc, d, allow, p, d0) ==
    IF cc >= SLOWDN_AT_C_Tenths * d0 THEN FMul(9, 10, d, p)
    ELSE IF cc < SPEEDUP_AT_C_Tenths * d0 /\ allow THEN FMul(11, 10, d, p)
    ELSE d

\* variant: the regimes start one call late
AbWeightsLate(s, d) ==
    IF s <= 1 THEN <<12 * d, 0, 0>>
    ELSE IF s = 2 THEN <<18 * d, -6 * d, 0>>
    ELSE <<23 * d, -16 * d, 5 * d>>
\* 12*(dt1, dt2, dt3) for the call made with step counter s and timestep d
AbWeights(s, d) ==
    IF s = 0 THEN <<12 * d, 0, 0>>
    ELSE IF s = 1 THEN <<18 * d, -6 * d, 0>>
    ELSE <<23 * d, -16 * d, 5 * d>>

\* newzt = zt + dt1*rhs + dt2*_prhs + dt3*_pprhs, in units of dt0/(12*Dt0)
AbUpdate(z, r, pr, ppr, w) == PAdd(z, w[1] * r + w[2] * pr + w[3] * ppr)

\* variant: the two assignments in the other order
ShiftHistorySwapped(r, pr) == <<r, r>>
\* _pprhs = _prhs; _prhs = rhs: the new <<_prhs, _pprhs>>
ShiftHistory(r, pr) == <<r, pr>>

\* nu = ((Lx/(np.floor(nx/3)*2.0*pi))**(2*n_diss))/tau is positive and finite
NuPositive(n) == (n \div 3) > 0 /\ TauTenths > 0 /\ n_diss >= 0

\* A spectral value together with the number of factors
\* deln = 1.0/(1.0 + nu*ksq**n_diss*dt) it has been multiplied by; deln < 1
\* for nu > 0 and dt > 0 (ksq >= 1 after line 206), and 0*deln = 0.
Undamped(v) == [val |-> v, deln |-> 0]
TimesDeln(x) == IF x.val = PZero THEN x ELSE [x EXCEPT !.deln = @ + 1]
\* zt between line 326 and anti_alias(zt): line 327, zt[:] = zt * deln, is a
\* comment
AfterDeln(newzt) == Undamped(newzt)

\* variant: while t <= tmax
LoopGuardInclusive(tt, tm) == tt <= tm
\* while t < tmax
LoopGuard(tt, tm) == tt < tm

\* variant: the dt the step started with
IntegratorDtStale == obs.dt_head
\* the dt handed to adams_bashforth(zt, rhs, dt)
IntegratorDt == dt
\* variant: the dt the step started with
AdvanceDtStale == obs.dt_head
\* the dt of t = t + dt
AdvanceDt == dt
\* variant: the time after the step
DiagClockPostStep == FAdd(t, dt, prec)
\* the t read by "if t > t_diag", "if t > t_plot" and np.append(time_arr, t)
DiagClock == t

\* The kind of c = maxvel*dt/dx: np.max over a velocity field that holds NaN is
\* NaN; over one that holds Inf and no NaN it is Inf.  Which of the two the
\* inverse transform of a non-finite spectral field produces is not fixed.
CourantKinds(nonfinite) == IF nonfinite THEN {"nan", "inf"} ELSE {"finite"}
\* the comparisons of lines 314 and 317 with a NaN are both false; Inf >= 0.6
AdjustDtOfKind(kind, cc, d, allow, p, d0) ==
    IF kind = "nan" THEN d
    ELSE IF kind = "inf" THEN FMul(9, 10, d, p)
    ELSE AdjustDt(cc, d, allow, p, d0)

\* Where a step ends up after "if t > t_plot: ...": the plotting library is
\* handed NaN colour limits and ticks when z holds NaN, and may raise.
PlotOutcomes(plotting, nonfinite) ==
    IF plotting /\ nonfinite THEN {"advance", "raised"} ELSE {"advance"}

Min(a, b) == IF a < b THEN a ELSE b

(***************************************************************************)
(* Inputs                                                                  *)
(***************************************************************************)
\* max|psiy|, max|psix| of a step's velocity field
MaxUValues == {1, 3}
MaxVValues == {1, 3, 13}
\* -jact - beta*psixt - zt*r_rayleigh at the followed coefficient
OtherValues == {0, 1}
LiveOtherValues == {0}
\* 0.5*amp*(random - 0.5)*exp(2j*pi*random) at a coefficient of the band
ForceValues == {-1, 0}
\* the followed coefficient: zero mode; on, inside and on the edges of the
\* forcing band; on and above kcut; cut by the truncation
Followed == {<<0, 0>>, <<14, 0>>, <<0, -15>>, <<12, 16>>, <<30, 0>>, <<31, 0>>, <<100, -80>>}
LiveFollowed == {<<100, -80>>}
\* in the runs with overflow: inside the forcing band; cut by the truncation
BlowupFollowed == {<<12, 16>>, <<100, -80>>}
\* ft(z) at the followed coefficient before the first truncation
InitialZt(d0) == {PZero, PConst(12 * d0)}

(***************************************************************************)
(* The script                                                              *)
(***************************************************************************)
NoObs == [dt_head |-> 0, t_head |-> 0, t_diag_head |-> 0, t_plot_head |-> 0,
          ab_dt |-> 0,
          ab_w |-> <<0, 0, 0>>, ab_zt |-> PZero, ab_pprhs |-> 0, ab_ret |-> PZero,
          ab_calls |-> 0, sum_dt |-> 0, other |-> 0, diag_fired |-> FALSE,
          blown_head |-> FALSE, rhs_head |-> 0,
          maxu |-> 0, maxv |-> 0, adj_from |-> 0, adj_to |-> 0,  \* the last
                                \* adjustment: its velocities, dt before and after
          p_maxu |-> 0, p_maxv |-> 0, p_from |-> 0, p_to |-> 0,  \* the one before
          prhs_call |-> 0, pprhs_call |-> 0,     \* the calls whose rhs _prhs and
                                                 \* _pprhs hold; 0: the initial 0.0
          ab_prhs_call |-> 0, ab_pprhs_call |-> 0,   \* the same, as the last
                                                     \* call found them
          deln_dt |-> 0, trunc_in |-> Undamped(PZero)]

Setup(p, d0, tm, de, pe, coeffs, oth, allows, ovf) ==
    /\ pc = "head"
    /\ prec = p
    /\ dt0 = d0
    /\ nx = ConfigNx
    /\ ny = ConfigNy
    /\ \E cf \in coeffs : ki = cf[1] /\ li = cf[2]
    /\ allow_speedup \in allows
    /\ tmax = tm * d0
    /\ diag_every = de * d0
    /\ plot_every = pe * d0
    /\ others = oth
    /\ overflows = ovf
    /\ blown = FALSE
    /\ cfin = "finite"
    /\ t = 0
    /\ step = 0
    /\ dt = d0
    /\ maxvel = 0
    /\ c = 0
    /\ zt \in {anti_alias(nx, ki, li, v) : v \in InitialZt(d0)}
    /\ forcet = 0
    /\ rhs = 0
    /\ prhs = 0
    /\ pprhs = 0
    /\ t_diag = FAdd(t, diag_every, p)
    /\ t_plot = FAdd(t, plot_every, p)
    /\ time_arr = <<t>>
    /\ obs = NoObs
    /\ ftrail = << >>
    /\ fops = << >>

Init ==
    Setup(Digits, Dt0, TmaxInDt0, DiagEveryInDt0, PlotEveryInDt0, Followed, OtherValues,
          BOOLEAN, {FALSE})

\* loop test; derivatives, Jacobian; forcet rebuilt
Begin ==
    /\ pc = "head"
    /\ LoopGuard(t, tmax)
    /\ \E fv \in ForceValues :
           forcet' = IF ForcingBand(ki, li) THEN fv ELSE 0
    /\ obs' = [obs EXCEPT !.dt_head = dt, !.t_head = t, !.t_diag_head = t_diag,
                          !.t_plot_head = t_plot,
                          !.diag_fired = FALSE, !.blown_head = blown,
                          !.rhs_head = rhs]
    /\ pc' = "adjust"
    /\ UNCHANGED <<prec, dt0, nx, ny, ki, li, allow_speedup, tmax, diag_every, plot_every, overflows, blown, cfin, others, t, step, dt, maxvel, c,
                   zt, rhs, prhs, pprhs, t_diag, t_plot, time_arr, ftrail, fops>>

Exit ==
    /\ pc = "head"
    /\ ~LoopGuard(t, tmax)
    /\ pc' = "done"
    /\ UNCHANGED <<prec, dt0, nx, ny, ki, li, allow_speedup, tmax, diag_every, plot_every, overflows, blown, cfin, others, t, step, dt, maxvel, c,
                   zt, forcet, rhs, prhs, pprhs, t_diag, t_plot, time_arr, obs,
                   ftrail, fops>>

\* c = courant_number(psix, psiy, dx, dt) and the dt adjustment
Adjust ==
    /\ pc = "adjust"
    /\ \E maxu \in MaxUValues, maxv \in MaxVValues :
           /\ maxvel' = maxu + maxv
           /\ c' = courant_number(maxu, maxv, dt)
           /\ \E kind \in CourantKinds(blown) :
                  /\ cfin' = kind
                  /\ dt' = AdjustDtOfKind(kind, c', dt, allow_speedup, prec, dt0)
           /\ obs' = [obs EXCEPT !.maxu = maxu, !.maxv = maxv,
                                 !.adj_from = dt, !.adj_to = dt',
                                 !.p_maxu = obs.maxu, !.p_maxv = obs.maxv,
                                 !.p_from = obs.adj_from, !.p_to = obs.adj_to]
    /\ pc' = "integrate"
    /\ UNCHANGED <<prec, dt0, nx, ny, ki, li, allow_speedup, tmax, diag_every, plot_every, overflows, blown, others, t, step,
                   zt, forcet, rhs, prhs, pprhs, t_diag, t_plot, time_arr,
                   ftrail, fops>>

\* rhs, adams_bashforth, anti_alias, high_wn_filter
Integrate ==
    /\ pc = "integrate"
    /\ \E other \in others, ovf \in overflows :
        LET r == other + forcet
            w == AbWeights(step, IntegratorDt)
            newzt == AbUpdate(zt, r, prhs, pprhs, w)
            n == Min(obs.ab_calls + 1, StepCap)
        IN  /\ rhs' = r
            /\ prhs' = ShiftHistory(r, prhs)[1]
            /\ pprhs' = ShiftHistory(r, prhs)[2]
            /\ blown' = (blown \/ ovf)
            /\ zt' = IF blown'
                     THEN anti_alias(nx, ki, li, zt)
                     ELSE TruncateAndFilter(nx, ki, li, newzt)
            /\ obs' = [obs EXCEPT !.ab_dt = IntegratorDt, !.ab_w = w, !.ab_zt = zt,
                                  !.ab_pprhs = pprhs, !.ab_ret = newzt,
                                  !.ab_calls = n,
                                  !.ab_prhs_call = obs.prhs_call,
                                  !.ab_pprhs_call = obs.pprhs_call,
                                  !.prhs_call = ShiftHistory(n, obs.prhs_call)[1],
                                  !.pprhs_call = ShiftHistory(n, obs.prhs_call)[2],
                                  !.sum_dt = FAdd(@, IntegratorDt, prec),
                                  !.other = other,
                                  !.deln_dt = dt, !.trunc_in = AfterDeln(newzt)]
    /\ pc' = "diag"
    /\ UNCHANGED <<prec, dt0, nx, ny, ki, li, allow_speedup, tmax, diag_every, plot_every, overflows, cfin, others, t, step, dt, maxvel, c,
                   forcet, t_diag, t_plot, time_arr, ftrail, fops>>

\* if t > t_diag: ...; if t > t_plot: ...
Diagnose ==
    /\ pc = "diag"
    /\ IF DiagClock > t_diag
       THEN /\ time_arr' = Append(time_arr, DiagClock)
            /\ t_diag' = FAdd(DiagClock, diag_every, prec)
            /\ obs' = [obs EXCEPT !.diag_fired = TRUE]
       ELSE UNCHANGED <<time_arr, t_diag, obs>>
    /\ IF DiagClock > t_plot
       THEN t_plot' = FAdd(DiagClock, plot_every, prec)
       ELSE UNCHANGED t_plot
    /\ pc' \in PlotOutcomes(DiagClock > t_plot, obs.blown_head)
    /\ UNCHANGED <<prec, dt0, nx, ny, ki, li, allow_speedup, tmax, diag_every, plot_every, overflows, blown, cfin, others, t, step, dt, maxvel, c,
                   zt, forcet, rhs, prhs, pprhs, ftrail, fops>>

\* t = t + dt; step = step + 1
Advance ==
    /\ pc = "advance"
    /\ t' = FAdd(t, AdvanceDt, prec)
    /\ step' = Min(step + 1, StepCap)
    /\ pc' = "head"
    /\ UNCHANGED <<prec, dt0, nx, ny, ki, li, allow_speedup, tmax, diag_every, plot_every, overflows, blown, cfin, others, dt, maxvel, c,
                   zt, forcet, rhs, prhs, pprhs, t_diag, t_plot, time_arr, obs,
                   ftrail, fops>>

Next == Begin \/ Exit \/ Adjust \/ Integrate \/ Diagnose \/ Advance

Spec == Init /\ [][Next]_vars

\* The runs in which a product of the Jacobian (psix*zy, psiy*zx) may overflow
\* in any step.  Once a field holds NaN, every later field does: each step
\* computes zt from zt and rhs, and rhs from zt.
BlowupInit ==
    Setup(Digits, Dt0, TmaxInDt0, DiagEveryInDt0, PlotEveryInDt0, BlowupFollowed,
          OtherValues, BOOLEAN, BOOLEAN)
SpecBlowup == BlowupInit /\ [][Next]_vars

\* The script as configured (ALLOW_SPEEDUP = True), at low precision, run for
\* as long as the loop test holds: a sequential program always takes its next
\* step.
LiveInit ==
    Setup(LiveDigits, LiveDt0, LiveTmaxInDt0, LiveDiagEveryInDt0, LivePlotEveryInDt0,
          LiveFollowed, LiveOtherValues, {TRUE}, {FALSE})
SpecLive == LiveInit /\ [][Next]_vars /\ WF_vars(Next)

(***************************************************************************)
(* Pointwise runs: the truncation and the filter applied to one            *)
(* coefficient of a field, for every grid size and coefficient             *)
(***************************************************************************)
MaxApply == 2
FieldNx == {SmallNx, SmallNx + 1, SmallNx + 2, SmallNx + 3, LargeNx}
FieldNy == {SmallNx, LargeNx}
FieldValues == {PZero, PConst(3)}

FieldInit ==
    /\ pc = "probe"
    /\ prec = Digits
    /\ dt0 = Dt0
    /\ nx \in FieldNx
    /\ ny \in FieldNy
    /\ ki \in KIndices(nx)
    /\ li \in LIndices(ny)
    /\ ftrail \in {<<v>> : v \in FieldValues}
    /\ fops = << >>
    /\ allow_speedup = TRUE
    /\ tmax = 0
    /\ diag_every = 0
    /\ plot_every = 0
    /\ others = {}
    /\ overflows = {FALSE}
    /\ blown = FALSE
    /\ cfin = "finite"
    /\ t = 0
    /\ step = 0
    /\ dt = dt0
    /\ maxvel = 0
    /\ c = 0
    /\ zt = PZero
    /\ forcet = 0
    /\ rhs = 0
    /\ prhs = 0
    /\ pprhs = 0
    /\ t_diag = 0
    /\ t_plot = 0
    /\ time_arr = <<0>>
    /\ obs = NoObs

ProbeUnchanged ==
    UNCHANGED <<pc, prec, dt0, nx, ny, ki, li, allow_speedup, tmax, diag_every, plot_every, overflows, blown, cfin, others, t, step, dt, maxvel, c,
                zt, forcet, rhs, prhs, pprhs, t_diag, t_plot, time_arr, obs>>

ProbeAntiAlias ==
    /\ pc = "probe"
    /\ Len(fops) < MaxApply
    /\ ftrail' = Append(ftrail, anti_alias(nx, ki, li, ftrail[Len(ftrail)]))
    /\ fops' = Append(fops, "anti_alias")
    /\ ProbeUnchanged

ProbeFilter ==
    /\ pc = "probe"
    /\ Len(fops) < MaxApply
    /\ ftrail' = Append(ftrail, high_wn_filter(ki, li, ftrail[Len(ftrail)]))
    /\ fops' = Append(fops, "high_wn_filter")
    /\ ProbeUnchanged

FieldNext == ProbeAntiAlias \/ ProbeFilter

SpecField == FieldInit /\ [][FieldNext]_vars

(***************************************************************************)
(* Properties                                                              *)
(***************************************************************************)
Last(s) == s[Len(s)]
InBody == pc \in {"adjust", "integrate", "diag", "advance"}
Adjusted == pc \in {"integrate", "diag", "advance"}
Integrated == pc \in {"diag", "advance"}
AtLoopHead == pc \in {"head", "done"}
Slowdown == c >= 6 * dt0             \* Courant number >= 0.6
Speedup == c < 4 * dt0               \* Courant number < 0.4

C2_RegimeWeights ==
    LET n == obs.ab_calls
        d == obs.ab_dt
        w == obs.ab_w
    IN  /\ (Integrated \/ AtLoopHead) /\ n >= 1 =>
            /\ n = 1 => w = <<12 * d, 0, 0>>
            /\ n = 2 => w = <<18 * d, -6 * d, 0>>
            /\ n >= 3 => w = <<23 * d, -16 * d, 5 * d>>
            /\ obs.ab_ret =
                   PAdd(obs.ab_zt, w[1] * prhs + w[2] * pprhs + w[3] * obs.ab_pprhs)
        /\ Integrated => step = n - 1
        /\ pc = "done" => n >= 2
\* the third call, with both history slots and the right-hand side nonzero
C2_Witness ==
    /\ pc = "diag"
    /\ obs.ab_calls = 3
    /\ prhs /= 0
    /\ pprhs /= 0
    /\ obs.ab_pprhs /= 0
    /\ obs.ab_ret /= obs.ab_zt

\* C3: the dt handed to adams_bashforth in a step, from which the call's
\* weights are computed, is the dt the controller produced in that step from
\* the dt the step started with, and it is the dt added to t at the end of
\* the step.
C3_AdjustBeforeUse ==
    /\ Integrated =>
        /\ obs.ab_dt = dt
        /\ Slowdown => 10 * obs.ab_dt = 9 * obs.dt_head
        /\ (~Slowdown /\ Speedup /\ allow_speedup) => 10 * obs.ab_dt = 11 * obs.dt_head
        /\ (~Slowdown /\ ~(Speedup /\ allow_speedup)) => obs.ab_dt = obs.dt_head
        /\ obs.ab_w[1] \in {12 * dt, 18 * dt, 23 * dt}
    /\ (AtLoopHead /\ obs.ab_calls >= 1) =>
        /\ obs.ab_dt = dt
        /\ t = obs.t_head + obs.ab_dt
\* a step whose controller changed dt before the integrator used it
C3_Witness ==
    /\ pc = "advance"
    /\ obs.ab_calls = 2
    /\ 10 * obs.ab_dt = 11 * obs.dt_head
    /\ obs.dt_head /= dt0

\* C4: at every loop head t is the sum of the dt values handed to the
\* integrator in the completed steps, and step is the number of completed
\* steps.
C4_TimeIsSumOfDt ==
    AtLoopHead =>
        /\ t = obs.sum_dt
        /\ step = obs.ab_calls
\* the loop head after three steps that did not all use the same dt
C4_Witness ==
    /\ pc = "head"
    /\ step = 3
    /\ t /= 3 * dt
    /\ t = obs.sum_dt

\* C5 as stated: t and step are advanced before the step's diagnostics are
\* evaluated, so the interval test and the recorded time use the post-step t.
C5_DiagnosticsAfterAdvance ==
    /\ pc = "diag" => (t = obs.t_head + obs.ab_dt /\ step = obs.ab_calls)
    /\ (pc = "advance" /\ obs.diag_fired) =>
           Last(time_arr) = obs.t_head + obs.ab_dt
\* C5, amended: the diagnostics of a step are evaluated before t and step are
\* advanced: the interval test and the recorded time use the pre-step t, and
\* t += dt, step += 1 are the last statements of the step.
C5_DiagnosticsBeforeAdvance ==
    /\ Integrated => (t = obs.t_head /\ step = obs.ab_calls - 1)
    /\ pc = "advance" =>
        /\ obs.diag_fired <=> obs.t_head > obs.t_diag_head
        /\ obs.diag_fired =>
               (Last(time_arr) = obs.t_head /\ t_diag = obs.t_head + diag_every)
        /\ ~obs.diag_fired => t_diag = obs.t_diag_head
        /\ t_plot = IF obs.t_head > obs.t_plot_head
                    THEN obs.t_head + plot_every
                    ELSE obs.t_plot_head
    /\ (AtLoopHead /\ obs.ab_calls >= 1) =>
           (t = obs.t_head + obs.ab_dt /\ step = obs.ab_calls)
\* a step that recorded a diagnostic time
C5_Witness ==
    /\ pc = "advance"
    /\ obs.diag_fired
    /\ Len(time_arr) = 2
    /\ Last(time_arr) = t
    /\ t > 0
    /\ t_plot = t + plot_every

\* C6: applying anti_alias twice in succession leaves a coefficient equal to
\* the result of applying it once.
C6_AntiAliasIdempotent ==
    \A i \in 1 .. (Len(fops) - 1) :
        (fops[i] = "anti_alias" /\ fops[i + 1] = "anti_alias") =>
            ftrail[i + 2] = ftrail[i + 1]
\* a nonzero coefficient that the first application zeroed
C6_Witness ==
    /\ fops = <<"anti_alias", "anti_alias">>
    /\ ftrail[1] /= PZero
    /\ ftrail[2] = PZero

\* C7 as stated: applying high_wn_filter twice in succession leaves a
\* coefficient equal to the result of applying it once.
C7_FilterIdempotent ==
    \A i \in 1 .. (Len(fops) - 1) :
        (fops[i] = "high_wn_filter" /\ fops[i + 1] = "high_wn_filter") =>
            ftrail[i + 2] = ftrail[i + 1]
\* C7, amended: high_wn_filter leaves a coefficient unchanged when its
\* wavenumber magnitude is at or below kcut or its value is zero, and
\* multiplies every other coefficient by its factor F < 1 at each application;
\* so two applications equal one exactly at the coefficients at or below kcut
\* and the zero coefficients.
C7_FilterIdempotentBelowCutoff ==
    \A i \in 1 .. (Len(fops) - 1) :
        (fops[i] = "high_wn_filter" /\ fops[i + 1] = "high_wn_filter") =>
            /\ ftrail[i + 2] = ftrail[i + 1]
                   <=> (WnSq(ki, li) <= kcut * kcut \/ ftrail[i] = PZero)
            /\ WnSq(ki, li) <= kcut * kcut => ftrail[i + 1] = ftrail[i]
            /\ WnSq(ki, li) > kcut * kcut =>
                   ftrail[i + 2] = PTimesF(PTimesF(ftrail[i]))
\* a nonzero coefficient above kcut that the second application changed again
C7_Witness ==
    /\ fops = <<"high_wn_filter", "high_wn_filter">>
    /\ WnSq(ki, li) > kcut * kcut
    /\ ftrail[1] /= PZero
    /\ ftrail[3] /= ftrail[2]
    /\ ftrail[2] /= ftrail[1]

\* C8 as stated: anti_alias zeroes a coefficient exactly when
\* (k^2 + l^2)/dk^2 is strictly greater than (8/9)(nk+1)^2 and leaves every
\* other coefficient, one lying exactly on the cutoff included, unchanged.
C8_TruncationStrictlyAbove ==
    (Len(fops) >= 1 /\ fops[1] = "anti_alias") =>
        ftrail[2] = IF 9 * WnSq(ki, li) > 8 * (Nk(nx) + 1) * (Nk(nx) + 1)
                    THEN PZero
                    ELSE ftrail[1]

\* C9: a step's forcing is zero at every coefficient whose wavenumber
\* magnitude lies outside [14, 20], whatever the forcing of earlier steps, and
\* there the step's right-hand side is the unforced tendency; inside the band
\* the forcing is a freshly drawn value.
C9_ForcingConfinedToBand ==
    LET outside == WnSq(ki, li) < BandLo * BandLo \/ WnSq(ki, li) > BandHi * BandHi
    IN  /\ outside => forcet = 0
        /\ forcet \in ForceValues \cup {0}
        /\ (outside /\ (Integrated \/ AtLoopHead) /\ obs.ab_calls >= 1) =>
               rhs = obs.other
\* a later step at a coefficient above the band whose right-hand side is
\* nonzero and unforced
C9_Witness ==
    /\ pc = "diag"
    /\ WnSq(ki, li) > BandHi * BandHi
    /\ obs.ab_calls = 3
    /\ forcet = 0
    /\ rhs /= 0
    /\ rhs = obs.other

C11_BlowupIsFatal ==
    /\ InBody => ~obs.blown_head
    /\ pc = "integrate" => cfin = "finite"
    /\ (pc = "head" /\ blown) => ~ENABLED Begin

\* C12 as stated: hyperviscous dissipation is selected by configuration: when
\* it is configured (nu > 0), the value the integrator returned is multiplied
\* by the damping factor computed from the step's dt before it is truncated
\* and filtered; when it is not, the value is truncated and filtered as
\* returned.
C12_HyperviscositySelectable ==
    (Integrated /\ ~blown) =>
        /\ obs.deln_dt = obs.ab_dt
        /\ obs.trunc_in = IF NuPositive(nx)
                          THEN TimesDeln(Undamped(obs.ab_ret))
                          ELSE Undamped(obs.ab_ret)
        /\ zt = high_wn_filter(ki, li, anti_alias(nx, ki, li, obs.trunc_in.val))

\* C13: in every call of adams_bashforth a history slot has a nonzero weight
\* only if it holds a real right-hand side: _prhs holds the rhs of the call
\* before whenever dt2 /= 0, _pprhs the rhs of the call before that whenever
\* dt3 /= 0, and the initial 0.0 only ever meets a zero weight; after the n-th
\* call _prhs holds the rhs of call n and, for n >= 2, _pprhs that of call
\* n - 1.
C13_HistoryValidBeforeRead ==
    LET n == obs.ab_calls
        w == obs.ab_w
    IN  ((Integrated \/ AtLoopHead) /\ n >= 1) =>
            /\ w[2] /= 0 => (obs.ab_prhs_call = n - 1 /\ n - 1 >= 1)
            /\ w[3] /= 0 => (obs.ab_pprhs_call = n - 2 /\ n - 2 >= 1)
            /\ obs.ab_prhs_call = 0 => w[2] = 0
            /\ obs.ab_pprhs_call = 0 => w[3] = 0
            /\ obs.prhs_call = n
            /\ prhs = rhs
            /\ n >= 2 => (obs.pprhs_call = n - 1 /\ pprhs = obs.rhs_head)
\* the third call: both slots are read with nonzero weights and hold the
\* different right-hand sides of the first two calls
C13_Witness ==
    /\ pc = "diag"
    /\ obs.ab_calls = 3
    /\ obs.ab_w[2] /= 0
    /\ obs.ab_w[3] /= 0
    /\ obs.ab_prhs_call = 2
    /\ obs.ab_pprhs_call = 1
    /\ obs.ab_pprhs /= pprhs
    /\ pprhs /= prhs

\* C14 as stated: for every grid width nx the spectral width nk computed at
\* setup equals floor(nx/2) + 1, the width of the real-to-complex transform of
\* a field with nx columns.
C14_SpectralWidthMatchesTransform ==
    Nk(nx) = RfftWidth(nx)

\* C15: whenever max|u| and max|v| are the same in two consecutive steps, the
\* controller does not reduce dt in the first and increase it in the second,
\* nor increase it in the first and reduce it in the second.
C15_NoThrashing ==
    (Adjusted /\ step >= 1 /\ obs.maxu = obs.p_maxu /\ obs.maxv = obs.p_maxv) =>
        /\ ~(obs.p_to < obs.p_from /\ dt > obs.dt_head)
        /\ ~(obs.p_to > obs.p_from /\ dt < obs.dt_head)
\* two consecutive steps with the same velocities: the first reduced dt at
\* C >= 0.6, the second, now at 0.4 <= C < 0.6, left it alone although speedup
\* is allowed
C15_Witness ==
    /\ pc = "integrate"
    /\ step >= 1
    /\ allow_speedup
    /\ obs.maxu = obs.p_maxu
    /\ obs.maxv = obs.p_maxv
    /\ obs.p_to < obs.p_from
    /\ obs.p_to = obs.dt_head
    /\ ~Slowdown
    /\ ~Speedup
    /\ dt = obs.dt_head

\* C16: at every loop head, before the first step and after every completed
\* step, zt is zero at every coefficient with
\* (k^2 + l^2)/dk^2 >= (8/9)(nk+1)^2: the initial condition is truncated before
\* the loop, each step truncates after the integrator update, and the filter
\* that follows leaves a zeroed coefficient zero.
C16_TruncatedAtLoopHead ==
    LET masked == 9 * WnSq(ki, li) >= 8 * (Nk(nx) + 1) * (Nk(nx) + 1)
    IN  /\ (AtLoopHead /\ masked) => zt = PZero
        /\ (Integrated /\ masked) => zt = PZero
        /\ (Integrated /\ ~blown) =>
               zt = high_wn_filter(ki, li, anti_alias(nx, ki, li, obs.ab_ret))
\* a loop head after two steps at a truncated coefficient that the integrator
\* update of the last step had made nonzero
C16_Witness ==
    /\ pc = "head"
    /\ step >= 2
    /\ 9 * WnSq(ki, li) >= 8 * (Nk(nx) + 1) * (Nk(nx) + 1)
    /\ obs.ab_ret /= PZero
    /\ obs.ab_zt = PZero
    /\ zt = PZero

====
